---- MODULE Spec2Model ----
(***************************************************************************)
(* Claim verification and fact-checking orchestration:                     *)
(*   - "source code/fact_check.py": process_claims and its driver          *)
(*     run_fact_checking_process (news search under a call ceiling,        *)
(*     article fetch, result records, result file);                        *)
(*   - "source code/main5.py": LLM classification of the result records;   *)
(*   - "source code/main4.py": search_single_api with provider failover.   *)
(* Strings are modelled as sequences of tokens (words and punctuation      *)
(* marks); article bodies by their length in characters (0 stands for      *)
(* None, the fetcher never returns an empty string).                       *)
(***************************************************************************)
EXTENDS Integers, Sequences, FiniteSets, TLC

\* ------------------------------------------------------------------ bounds
MaxClaims == 2
MaxCeiling == 3
MaxArticles == 2
MaxRuns == 2
MaxM4Claims == 4
MaxPipelineClaims == 1
PipelineCeiling == 1
MaxResponseWords == 4

\* ------------------------------------------------------- query strings
Words == {"w1", "w2", "w3", "w4"}

\* a query is a sequence of tokens: words, or "!" for any non-word character
Queries ==
  { <<>>, <<"w1", "w2">>, <<"w1", "!">>, <<"w1", "w2", "w3", "w4">> }

KeyTerms(query) == SelectSeq(query, LAMBDA t : t \in Words)

\* re.sub(r'[^\w\s]', ' ', q), whitespace collapsed and stripped; the cut at
\* 100 characters is out of reach of the queries above (at most 11 characters)
sanitize_search_query(query) == KeyTerms(query)

generate_alternative_query(original_query) ==
  LET key_terms == KeyTerms(original_query)
  IN  IF Len(key_terms) >= 3 THEN SubSeq(key_terms, 1, 3)
      ELSE IF Len(key_terms) >= 2 THEN SubSeq(key_terms, 1, 2)
      ELSE original_query

\* ------------------------------------------------------- news providers
Hosts == {"example.com", "ndtv.com", "www.ndtv.com"}

Ports == {"", "443"}

\* an article url: scheme://host/path, or scheme://host:port/path
Urls == [scheme : {"http", "https"}, host : Hosts, port : Ports,
         path : {"/", "/story"}]

\* urlparse(url).netloc: the host, with ":" and the port if the url names one
netloc(url) ==
  IF url.port = "" THEN <<url.host>> ELSE <<url.host, ":", url.port>>

Article(host) ==
  [url |-> [scheme |-> "https", host |-> host, port |-> "", path |-> "/story"]]

ArticleLists ==
  { <<>>, <<Article("example.com")>>,
    <<Article("example.com"), Article("ndtv.com")>>,
    <<Article("ndtv.com"), Article("example.com"), Article("ndtv.com")>> }

BoundedArticleLists == { l \in ArticleLists : Len(l) <= MaxArticles }

\* what requests.get does for one search request: status 0 stands for a
\* RequestException (timeout, connection error), otherwise the HTTP status
HttpOutcomes ==
  { [status |-> s, articles |-> <<>>] : s \in {0, 429} }
    \cup { [status |-> 200, articles |-> l] : l \in BoundedArticleLists }

\* make_api_call: the article list on 200 (empty when the answer has no
\* articles), None on any other status and on a request exception
make_api_call(http) ==
  IF http.status = 200
    THEN [none |-> FALSE, articles |-> http.articles]
    ELSE [none |-> TRUE, articles |-> <<>>]

\* the NewsAPI answer converted to the GNews shape (title, url, ... copied)
ConvertArticles(articles) == [i \in 1..Len(articles) |-> [url |-> articles[i].url]]

\* one request as logged: the provider, the query, whether make_api_call
\* answered None
Request(api_name, q, http) ==
  <<[api |-> api_name, q |-> q, failed |-> make_api_call(http).none]>>

\* the guard of each of the four requests of fetch_news_articles
may_call_mut(current_api_calls, max_api_calls) == current_api_calls <= max_api_calls

may_call(current_api_calls, max_api_calls) == current_api_calls < max_api_calls

\* fetch_news_articles: resp[k] is what the k-th request of the function's
\* text would be answered, were it issued. Returns the articles, the new
\* counter and the requests issued, in order.
fetch_news_articles(search_query, current_api_calls, max_api_calls, resp) ==
  LET sanitized_query == sanitize_search_query(search_query)
      alt_query == generate_alternative_query(search_query)
      \* --- GNews
      try1 == may_call(current_api_calls, max_api_calls)
      a1 == make_api_call(resp[1])
      c1 == IF try1 THEN current_api_calls + 1 ELSE current_api_calls
      l1 == IF try1 THEN Request("GNews", sanitized_query, resp[1]) ELSE <<>>
      \* --- NewsAPI
      try2 == may_call(c1, max_api_calls)
      a2 == make_api_call(resp[2])
      c2 == IF try2 THEN c1 + 1 ELSE c1
      l2 == IF try2 THEN l1 \o Request("NewsAPI", sanitized_query, resp[2]) ELSE l1
      \* --- GNews, alternative query
      try3 == may_call(c2, max_api_calls)
      a3 == make_api_call(resp[3])
      c3 == IF try3 THEN c2 + 1 ELSE c2
      l3 == IF try3 THEN l2 \o Request("GNews", alt_query, resp[3]) ELSE l2
      \* --- NewsAPI, alternative query
      try4 == may_call(c3, max_api_calls)
      a4 == make_api_call(resp[4])
      c4 == IF try4 THEN c3 + 1 ELSE c3
      l4 == IF try4 THEN l3 \o Request("NewsAPI", alt_query, resp[4]) ELSE l3
  IN  IF try1 /\ ~a1.none
        THEN [articles |-> a1.articles, calls |-> c1, log |-> l1]
      ELSE IF try2 /\ ~a2.none
        THEN [articles |-> ConvertArticles(a2.articles), calls |-> c2, log |-> l2]
      ELSE IF alt_query = sanitized_query
        THEN [articles |-> <<>>, calls |-> c2, log |-> l2]
      ELSE IF try3 /\ ~a3.none
        THEN [articles |-> a3.articles, calls |-> c3, log |-> l3]
      ELSE IF try4 /\ ~a4.none
        THEN [articles |-> ConvertArticles(a4.articles), calls |-> c4, log |-> l4]
      ELSE [articles |-> <<>>, calls |-> c4, log |-> l4]

\* ------------------------------------------------------- article fetcher
blocked_domains == { <<"ndtv.com">> }

is_domain_blocked(url) == netloc(url) \in blocked_domains

\* what the GET of an article page gives: status 0 is an exception of
\* requests.get, len the length of the text the regex extraction is left
\* with (0: nothing extracted; a kept sentence has more than 10 characters),
\* tik the token count of tiktoken for that text (0: tiktoken raises)
PageOutcomes ==
  { [status |-> 0, len |-> 0, tik |-> 0],
    [status |-> 200, len |-> 0, tik |-> 0],
    [status |-> 200, len |-> 12, tik |-> 0],
    [status |-> 200, len |-> 12, tik |-> 4] }

\* fetch_full_article_content: the content (its length; 0 is None) and the
\* number of HTTP requests issued
fetch_full_article_content_mut(url, page) ==
  IF page.status # 200 THEN [content |-> 0, gets |-> 1]
  ELSE [content |-> page.len, gets |-> 1]

fetch_full_article_content(url, page) ==
  IF is_domain_blocked(url) THEN [content |-> 0, gets |-> 0]
  ELSE IF page.status # 200 THEN [content |-> 0, gets |-> 1]
  ELSE [content |-> page.len, gets |-> 1]

\* count_tokens: tiktoken's count, len(text) // 4 when tiktoken raises
count_tokens(text, tik) == IF tik > 0 THEN tik ELSE text \div 4

\* ------------------------------------------------------- process_claims
\* the input claims: whether external verification is asked for, the search
\* query and the claim text (the other fields are copied to the result as
\* they are)
ClaimKinds ==
  { [needs_external_verification |-> FALSE, search_query |-> <<"w1", "w2">>,
     claim |-> <<"w1", "w2", "w3", "w4">>],
    [needs_external_verification |-> TRUE, search_query |-> <<"w1", "w2">>,
     claim |-> <<"w1", "w2", "w3", "w4">>],
    [needs_external_verification |-> TRUE, search_query |-> <<"w1", "w2", "w3", "w4">>,
     claim |-> <<"w1", "!">>],
    [needs_external_verification |-> TRUE, search_query |-> <<>>,
     claim |-> <<"w1", "!">>],
    [needs_external_verification |-> TRUE, search_query |-> <<>>,
     claim |-> <<>>] }

ClaimLists == UNION { [1..n -> ClaimKinds] : n \in 0..MaxClaims }

\* the unused answers of an environment choice are fixed to this one
NoAnswer == [status |-> 0, articles |-> <<>>]

NoPage == [status |-> 0, len |-> 0, tik |-> 0]

RECURSIVE SumTokens(_)
SumTokens(article_datas) ==
  IF article_datas = <<>> THEN 0
  ELSE (IF Head(article_datas).content # 0
          THEN Head(article_datas).content_tokens ELSE 0)
       + SumTokens(Tail(article_datas))

RECURSIVE SumGets(_, _)
SumGets(articles, pages) ==
  IF articles = <<>> THEN 0
  ELSE fetch_full_article_content(Head(articles).url, Head(pages)).gets
       + SumGets(Tail(articles), Tail(pages))

\* the article record of process_claims, lines 289-298
article_data(article, page) ==
  LET full_content == fetch_full_article_content(article.url, page).content
  IN  [url |-> article.url,
       content |-> full_content,
       content_tokens |-> IF full_content # 0
                            THEN count_tokens(full_content, page.tik) ELSE 0]

\* the tag of a claim whose search returned articles
content_tag_mut(total_tokens) ==
  IF total_tokens >= 0 THEN "content_found" ELSE "no_content_found"

content_tag(total_tokens) ==
  IF total_tokens > 0 THEN "content_found" ELSE "no_content_found"

base_result(claim_data) ==
  [claim |-> claim_data.claim,
   search_query |-> claim_data.search_query,
   articles |-> <<>>,
   total_tokens |-> 0,
   needs_external_verification |-> claim_data.needs_external_verification]

\* whether the loop stops at a claim that needs external verification
budget_reached_mut(api_calls, max_calls) == api_calls > max_calls

budget_reached(api_calls, max_calls) == api_calls >= max_calls

\* claim_data.get("needs_external_verification", True)
needs_search_mut(claim_data) == TRUE

needs_search(claim_data) == claim_data.needs_external_verification

\* the counter process_claims takes back from fetch_news_articles
returned_counter_mut(found) ==
  IF found.articles = <<>> THEN found.calls - Len(found.log) ELSE found.calls

returned_counter(found) == found.calls

\* one iteration of the loop of process_claims over claim_data, the counter
\* being api_calls: brk (the loop is left, nothing appended), the record
\* appended, the new counter, the search requests issued, the number of
\* calls of fetch_full_article_content and of article GETs
claim_iteration(claim_data, api_calls, max_calls, resp, pages) ==
  LET claim_result == base_result(claim_data)
      search_query == IF claim_data.search_query # <<>>
                        THEN claim_data.search_query ELSE claim_data.claim
      found == fetch_news_articles(search_query, api_calls, max_calls, resp)
      datas == [i \in 1..Len(found.articles) |->
                  article_data(found.articles[i], pages[i])]
      total == SumTokens(datas)
  IN  IF ~needs_search(claim_data)
        THEN [brk |-> FALSE, path |-> "knowledge",
              rec |-> claim_result @@ [verification_result |-> "verified_by_knowledge"],
              calls |-> api_calls, log |-> <<>>, fetches |-> 0, gets |-> 0]
      ELSE IF budget_reached(api_calls, max_calls)
        THEN [brk |-> TRUE, path |-> "break", rec |-> claim_result,
              calls |-> api_calls, log |-> <<>>, fetches |-> 0, gets |-> 0]
      ELSE IF search_query = <<>>
        THEN [brk |-> FALSE, path |-> "no_query", rec |-> claim_result,
              calls |-> api_calls, log |-> <<>>, fetches |-> 0, gets |-> 0]
      ELSE IF found.articles # <<>>
        THEN [brk |-> FALSE, path |-> "search",
              rec |-> [claim_result EXCEPT !.articles = datas,
                                           !.total_tokens = total]
                      @@ [verification_result |-> content_tag(total)],
              calls |-> returned_counter(found), log |-> found.log,
              fetches |-> Len(found.articles),
              gets |-> SumGets(found.articles, pages)]
      ELSE [brk |-> FALSE, path |-> "search",
            rec |-> claim_result @@ [verification_result |-> "no_articles_found"],
            calls |-> returned_counter(found), log |-> found.log, fetches |-> 0, gets |-> 0]

\* ------------------------------------------------------------------ state
VARIABLES
  json_data,        \* the parsed input file: the claim list
  input_exists,     \* whether the input file exists
  max_api_calls,    \* the ceiling the driver is called with
  results_file,     \* the result file: [exists, valid, content]
  pc,               \* position of run_fact_checking_process
  runs,             \* invocations of run_fact_checking_process so far
  ret,              \* what the invocations returned, in order
  idx,              \* processed_claims: iterations of the loop started
  api_call_count,   \* the counter of process_claims
  verified_claims,  \* results["verified_claims"]
  trace,            \* per iteration: counter before, what was issued
  search_requests,  \* calls of make_api_call in this run of process_claims
  network_calls     \* search requests and article GETs of all invocations

\* main4.py
VARIABLES
  m4_pc,              \* position of process_claims_with_verification
  m4_runs,            \* runs of process_claims_with_verification started
  m4_left,            \* claims of claims_data the loop has not come to yet
  m4_api_call_count,  \* the global api_call_count
  gnews_available,    \* the global gnews_available
  newsapi_available,  \* the global newsapi_available
  m4_last             \* the last call of search_single_api: entry, requests, result

\* two runs of process_claims over the same input, compared
VARIABLES
  replay            \* per run: position, counter, decisions taken

\* main5.py
VARIABLES
  output_file,             \* the classification file: [exists, valid, content]
  model_exists,            \* whether the model file exists
  llm_pc,                  \* position of run_llm_classification_process
  llm_runs,                \* invocations of run_llm_classification_process so far
  llm_ret,                 \* what the invocations returned, in order
  llm_idx,                 \* claims the loop of process_claims_with_llm has come to
  classification_results,  \* what process_claims_with_llm builds
  llm_trace,               \* per claim classified: articles, label, model invocations
  model_calls              \* calls of llm.create_chat_completion, all invocations

\* one call of a function taken by itself
VARIABLES
  call,     \* the function called and its arguments
  returned  \* what it returned

fc_vars == <<json_data, input_exists, max_api_calls, results_file, pc, runs, ret,
             idx, api_call_count, verified_claims, trace, search_requests,
             network_calls>>

m4_vars == <<m4_pc, m4_runs, m4_left, m4_api_call_count, gnews_available,
             newsapi_available, m4_last>>

llm_vars == <<output_file, model_exists, llm_pc, llm_runs, llm_ret, llm_idx,
              classification_results, llm_trace, model_calls>>

fn_vars == <<call, returned>>

vars == <<fc_vars, m4_vars, replay, llm_vars, fn_vars>>

\* valid: the file holds a complete JSON document
NoFile == [exists |-> FALSE, valid |-> FALSE, content |-> <<>>]

\* a result file left by an earlier run
OldFile ==
  [exists |-> TRUE, valid |-> TRUE,
   content |-> << [claim |-> <<"w1", "w2">>, search_query |-> <<"w1", "w2">>,
                   articles |-> << [url |-> Article("example.com").url, content |-> 0,
                                    content_tokens |-> 0] >>,
                   total_tokens |-> 0, needs_external_verification |-> TRUE,
                   verification_result |-> "no_content_found"],
                  [claim |-> <<"w2", "w1">>, search_query |-> <<"w2", "w1">>,
                   articles |-> << [url |-> Article("example.com").url, content |-> 0,
                                    content_tokens |-> 0] >>,
                   total_tokens |-> 0, needs_external_verification |-> TRUE,
                   verification_result |-> "no_content_found"],
                  [claim |-> <<"w1", "!">>, search_query |-> <<>>, articles |-> <<>>,
                   total_tokens |-> 0, needs_external_verification |-> FALSE,
                   verification_result |-> "verified_by_knowledge"] >>]

\* main4.py as loaded: lines 22-27
M4Loaded ==
  /\ m4_pc = "loaded"
  /\ m4_runs = 0
  /\ m4_left = 0
  /\ m4_api_call_count = 0
  /\ gnews_available = TRUE
  /\ newsapi_available = TRUE
  /\ m4_last = [called |-> FALSE]

NoReplay == [turn |-> 0]

\* what process_claims_with_llm returns when the model does not load ({}),
\* and the dictionary it starts from when it does
NoResults == [loaded |-> FALSE, classifications |-> <<>>]

NoOutput == [exists |-> FALSE, valid |-> FALSE, content |-> NoResults]

\* no function is called by itself
NoCall == [fn |-> "none"]

FnIdle == call = NoCall /\ returned = NoCall

\* main5.py not called
LlmIdle ==
  /\ output_file = NoOutput
  /\ model_exists = TRUE
  /\ llm_pc = "idle"
  /\ llm_runs = 0
  /\ llm_ret = <<>>
  /\ llm_idx = 0
  /\ classification_results = NoResults
  /\ llm_trace = <<>>
  /\ model_calls = 0

\* process_claims(json_data, max_api_calls) is called: any claim list, any
\* ceiling
Init ==
  /\ M4Loaded
  /\ LlmIdle
  /\ FnIdle
  /\ replay = NoReplay
  /\ json_data \in ClaimLists
  /\ max_api_calls \in 0..MaxCeiling
  /\ input_exists = TRUE
  /\ results_file = NoFile
  /\ pc = IF json_data = <<>> THEN "returned" ELSE "loop"
  /\ runs = 0
  /\ ret = <<>>
  /\ idx = 0
  /\ api_call_count = 0
  /\ verified_claims = <<>>
  /\ trace = <<>>
  /\ search_requests = 0
  /\ network_calls = 0

Min(a, b) == IF a <= b THEN a ELSE b

\* the answers of the providers to the requests one search can issue with
\* `left` budget units: some requests fail (any failing answer each), the
\* next one, if any, is answered 200; the requests after it are not issued
Answers(left) ==
  LET n == Min(4, left)
      failing == { o \in HttpOutcomes : o.status # 200 }
      ok == { o \in HttpOutcomes : o.status = 200 }
      Pad(f, last) == [k \in 1..4 |-> IF k <= Len(f) THEN f[k]
                                      ELSE IF k = Len(f) + 1 THEN last ELSE NoAnswer]
  IN  UNION { { Pad(f, o) : f \in [1..k -> failing], o \in ok } : k \in 0..(n - 1) }
        \cup { Pad(f, NoAnswer) : f \in [1..n -> failing] }

\* the pages of the articles that are fetched: one outcome per article whose
\* domain is not blocked
Pages(articles) ==
  { p \in [1..MaxArticles -> PageOutcomes] :
      \A k \in 1..MaxArticles :
        (k > Len(articles) \/ is_domain_blocked(articles[k].url)) => p[k] = NoPage }

\* where the loop of process_claims is after iteration number done: left by
\* the break or at the end of json_data, or going on
loop_pc(brk, done) == IF brk \/ done >= Len(json_data) THEN "returned" ELSE "loop"

\* every way one iteration of the loop can go for claim_data with the counter
\* at api_calls: one per choice of the providers' answers to the requests
\* issued and of the pages of the articles fetched
Iterations(claim_data, api_calls, max_calls) ==
  LET none == [i \in 1..MaxArticles |-> NoPage]
      issued(resp) == claim_iteration(claim_data, api_calls, max_calls, resp, none)
      answers == { resp \in Answers(max_calls - api_calls) :
                     \A k \in 1..4 : k > Len(issued(resp).log) => resp[k] = NoAnswer }
      found(resp) == [i \in 1..issued(resp).fetches |-> issued(resp).rec.articles[i]]
  IN  UNION { { claim_iteration(claim_data, api_calls, max_calls, resp, pages) :
                  pages \in Pages(found(resp)) } : resp \in answers }

\* one step of the loop of process_claims, lines 235-309
process_claims ==
  /\ pc = "loop"
  /\ \E it \in Iterations(json_data[idx + 1], api_call_count, max_api_calls) :
       /\ idx' = idx + 1
       /\ api_call_count' = it.calls
       /\ verified_claims' = IF it.brk THEN verified_claims
                             ELSE Append(verified_claims, it.rec)
       /\ trace' = Append(trace,
                          [path |-> it.path, before |-> api_call_count,
                           requests |-> it.log, fetches |-> it.fetches,
                           gets |-> it.gets])
       /\ search_requests' = search_requests + Len(it.log)
       /\ network_calls' = network_calls + Len(it.log) + it.gets
       /\ pc' = loop_pc(it.brk, idx + 1)
  /\ UNCHANGED <<json_data, input_exists, max_api_calls, results_file, runs, ret>>
  /\ UNCHANGED <<m4_vars, replay, llm_vars, fn_vars>>

Next == process_claims

Spec == Init /\ [][Next]_vars

\* ------------------------------------------------ process_claims: claims
HasTag(rec) == "verification_result" \in DOMAIN rec

Tag(rec) == IF HasTag(rec) THEN rec.verification_result ELSE "<absent>"

\* the counter when iteration i of the loop began, resp. ended; for a claim
\* the loop never came to, the counter the run ended with
CounterBefore(i) == IF i <= Len(trace) THEN trace[i].before ELSE api_call_count

CounterAfter(i) == IF i < Len(trace) THEN trace[i + 1].before ELSE api_call_count

\* C1: one run of process_claims issues at most max_api_calls provider
\* search requests (calls of make_api_call), whatever the providers answer.
C1_BudgetExactness == search_requests <= max_api_calls

\* a run that has used up a positive ceiling, one search of it having fallen
\* back to a second request
C1_Witness ==
  /\ pc = "returned"
  /\ max_api_calls > 0
  /\ search_requests = max_api_calls
  /\ \E i \in 1..Len(trace) : Len(trace[i].requests) >= 2

StopClaims ==
  { i \in 1..Len(trace) :
      json_data[i].needs_external_verification /\ trace[i].before >= max_api_calls }

SetMin(S) == CHOOSE x \in S : \A y \in S : x <= y

C7_TokensAndTag ==
  \A i \in 1..Len(verified_claims) :
    LET rec == verified_claims[i]
    IN  /\ Tag(rec) # "content_found" => rec.total_tokens = 0
        /\ rec.articles # <<>> =>
             /\ rec.total_tokens = SumTokens(rec.articles)
             /\ Tag(rec) \in {"content_found", "no_content_found"}
             /\ Tag(rec) = "content_found" <=> rec.total_tokens > 0

\* one record with articles but no content, one with content
C7_Witness ==
  /\ Len(verified_claims) = 2
  /\ Tag(verified_claims[1]) = "no_content_found"
  /\ Len(verified_claims[1].articles) = 2
  /\ Tag(verified_claims[2]) = "content_found"
  /\ verified_claims[2].total_tokens = 3

VerificationResults ==
  {"verified_by_knowledge", "content_found", "no_content_found",
   "no_articles_found", "skipped_budget_exhausted"}

\* C8: every record appended to verified_claims carries a verification_result
\* field, one of the five tags.
C8_Original ==
  \A i \in 1..Len(verified_claims) :
    /\ HasTag(verified_claims[i])
    /\ verified_claims[i].verification_result \in VerificationResults

\* C22 (as stated): a search whose first request, to GNews, is answered
\* with an empty article list while the counter after it is below the
\* ceiling does not ask GNews again with that query and goes on to NewsAPI
\* with it, in the same call of fetch_news_articles.
C22_Original ==
  \A i \in DOMAIN trace :
     (/\ trace[i].requests # <<>>
      /\ trace[i].requests[1].api = "GNews"
      /\ ~trace[i].requests[1].failed
      /\ trace[i].fetches = 0
      /\ trace[i].before + 1 < max_api_calls)
     => /\ Len(trace[i].requests) >= 2
        /\ trace[i].requests[2].api = "NewsAPI"
        /\ trace[i].requests[2].q = trace[i].requests[1].q
        /\ \A k \in 2..Len(trace[i].requests) :
              trace[i].requests[k].api = "GNews"
                => trace[i].requests[k].q # trace[i].requests[1].q

MAX_API_CALLS == 5

\* what requests.get and the reading of the answer do for one request of
\* search_single_api: status 0 stands for any exception raised inside the try
M4Outcomes ==
  { [status |-> st, articles |-> <<>>] : st \in {0, 200, 403, 429, 500} }
    \cup { [status |-> 200, articles |-> <<Article("example.com")>>] }

can_make_api_call_mut(count) == TRUE

can_make_api_call(count) == count < MAX_API_CALLS

get_available_api_mut(gnews, newsapi) == "gnews"

get_available_api(gnews, newsapi) ==
  IF gnews THEN "gnews" ELSE IF newsapi THEN "newsapi" ELSE "none"

mark_api_unavailable_mut(st, api_name) == st

\* st: the globals [count, gnews, newsapi] and the requests issued so far
mark_api_unavailable(st, api_name) ==
  IF api_name = "gnews" THEN [st EXCEPT !.gnews = FALSE]
  ELSE IF api_name = "newsapi" THEN [st EXCEPT !.newsapi = FALSE]
  ELSE st

\* the availability flag of the provider other than api_name
other_available(st, api_name) == IF api_name = "gnews" THEN st.newsapi ELSE st.gnews

\* the statuses that mark a provider unavailable
is_quota_status(status) == status \in {429, 403}

M4Return(st, articles, api_used) ==
  [count |-> st.count, gnews |-> st.gnews, newsapi |-> st.newsapi, log |-> st.log,
   articles |-> articles, api_used |-> api_used]

\* search_single_api, its recursive retries included; answers are the
\* outcomes of the successive requests
RECURSIVE search_single_api(_, _)
search_single_api(st, answers) ==
  IF ~can_make_api_call(st.count) THEN M4Return(st, <<>>, "none")
  ELSE
    LET available_api == get_available_api(st.gnews, st.newsapi)
        a == IF answers = <<>> THEN [status |-> 0, articles |-> <<>>] ELSE Head(answers)
        rest == IF answers = <<>> THEN <<>> ELSE Tail(answers)
        \* increment_api_call, then the request
        st1 == [st EXCEPT !.count = @ + 1,
                          !.log = Append(@, [api |-> available_api, status |-> a.status])]
        st2 == mark_api_unavailable(st1, available_api)
    IN  IF available_api = "none" THEN M4Return(st, <<>>, "none")
        ELSE IF a.status = 200 THEN M4Return(st1, a.articles, available_api)
        ELSE IF a.status = 0 \/ is_quota_status(a.status)
          THEN IF other_available(st2, available_api) /\ can_make_api_call(st2.count)
                 THEN search_single_api(st2, rest)
                 ELSE M4Return(st2, <<>>, available_api)
        ELSE M4Return(st1, <<>>, available_api)

M4NoAnswer == [status |-> 0, articles |-> <<>>]

\* the answers to the requests of one call: no request follows an answer
\* that ends the call, and the answers to requests not issued are fixed
M4Answers ==
  { a \in [1..3 -> M4Outcomes] :
      \A k \in 2..3 :
        (a[k - 1].status \in {200, 500} \/ (k = 3 /\ a[1].status \in {200, 500}))
          => a[k] = M4NoAnswer }

M4Globals == [count |-> m4_api_call_count, gnews |-> gnews_available,
              newsapi |-> newsapi_available, log |-> <<>>]

\* process_claims_with_verification, lines 534-568: the globals are reset,
\* the claims are loaded and the model initialised (either may fail, which
\* ends the run)
m4_start ==
  /\ m4_pc \in {"loaded", "done"}
  /\ m4_runs < MaxRuns
  /\ m4_runs' = m4_runs + 1
  /\ m4_api_call_count' = 0
  /\ gnews_available' = TRUE
  /\ newsapi_available' = TRUE
  /\ \E loaded \in BOOLEAN, n \in 0..MaxM4Claims :
       /\ m4_left' = IF loaded THEN n ELSE 0
       /\ m4_pc' = IF loaded /\ n > 0 THEN "loop" ELSE "done"
  /\ UNCHANGED m4_last
  /\ UNCHANGED <<fc_vars, replay, llm_vars, fn_vars>>

\* one iteration of the loop of process_claims_with_verification, lines
\* 570-638; verify says whether analyze_claim_severity asks for verification
\* of a high or critical claim
m4_claim ==
  /\ m4_pc = "loop"
  /\ IF m4_api_call_count >= MAX_API_CALLS
       THEN \* the remaining claims are added unverified, break
            /\ m4_left' = 0
            /\ m4_pc' = "done"
            /\ UNCHANGED <<m4_api_call_count, gnews_available, newsapi_available,
                           m4_last>>
       ELSE /\ m4_left' = m4_left - 1
            /\ m4_pc' = IF m4_left = 1 THEN "done" ELSE "loop"
            /\ \E verify \in BOOLEAN :
                 IF verify /\ can_make_api_call(m4_api_call_count)
                   THEN \E answers \in M4Answers :
                          LET r == search_single_api(M4Globals, answers)
                          IN  /\ \A k \in 1..3 : k > Len(r.log) => answers[k] = M4NoAnswer
                              /\ m4_api_call_count' = r.count
                              /\ gnews_available' = r.gnews
                              /\ newsapi_available' = r.newsapi
                              /\ m4_last' = [called |-> TRUE,
                                             entry |-> [count |-> m4_api_call_count,
                                                        gnews |-> gnews_available,
                                                        newsapi |-> newsapi_available],
                                             exit |-> [count |-> r.count,
                                                       gnews |-> r.gnews,
                                                       newsapi |-> r.newsapi],
                                             log |-> r.log,
                                             articles |-> r.articles,
                                             api_used |-> r.api_used]
                   ELSE UNCHANGED <<m4_api_call_count, gnews_available,
                                    newsapi_available, m4_last>>
  /\ UNCHANGED m4_runs
  /\ UNCHANGED <<fc_vars, replay, llm_vars, fn_vars>>

\* the fact_check.py variables while main4.py runs
FcIdle ==
  /\ json_data = <<>>
  /\ max_api_calls = 0
  /\ input_exists = TRUE
  /\ results_file = NoFile
  /\ pc = "idle"
  /\ runs = 0
  /\ ret = <<>>
  /\ idx = 0
  /\ api_call_count = 0
  /\ verified_claims = <<>>
  /\ trace = <<>>
  /\ search_requests = 0
  /\ network_calls = 0

InitSearch == M4Loaded /\ FcIdle /\ LlmIdle /\ FnIdle /\ replay = NoReplay

NextSearch == m4_start \/ m4_claim

SpecSearch == InitSearch /\ [][NextSearch]_vars

\* C6: a search_single_api call entered with both providers available and at
\* least two budget units left, whose first request (GNews) is answered 429
\* or 403, leaves GNews unavailable, has tried NewsAPI as its second request
\* and returns with api_call_count increased by exactly 2.
C6_ProviderFailover ==
  (/\ m4_last.called
   /\ m4_last.entry.gnews
   /\ m4_last.entry.newsapi
   /\ m4_last.entry.count + 2 <= MAX_API_CALLS
   /\ m4_last.log # <<>>
   /\ is_quota_status(m4_last.log[1].status))
  => /\ m4_last.log[1].api = "gnews"
     /\ ~m4_last.exit.gnews
     /\ Len(m4_last.log) = 2
     /\ m4_last.log[2].api = "newsapi"
     /\ m4_last.exit.count = m4_last.entry.count + 2

\* GNews answered 429 on the first request of a run, NewsAPI then gave articles
C6_Witness ==
  /\ m4_last.called
  /\ m4_last.entry = [count |-> 0, gnews |-> TRUE, newsapi |-> TRUE]
  /\ m4_last.log = <<[api |-> "gnews", status |-> 429], [api |-> "newsapi", status |-> 200]>>
  /\ m4_last.articles # <<>>
  /\ m4_last.api_used = "newsapi"
  /\ m4_api_call_count = 2
  /\ ~gnews_available
  /\ newsapi_available

\* the requests issued by the search_single_api call of this step (a call
\* that issues a request raises the counter)
StepLog ==
  IF m4_api_call_count' > m4_api_call_count THEN m4_last'.log ELSE <<>>

\* the answer to a request has its provider marked unavailable: an exception
\* or a 429/403
Marks(request) == request.status = 0 \/ is_quota_status(request.status)

\* C18: in a run of process_claims_with_verification a provider whose flag
\* (gnews_available, newsapi_available) is False stays so to the end of the
\* run and gets no request from any later search_single_api call of the run,
\* the retry inside the call that marked it included; the call that marks a
\* provider returns, it does not raise
C18_ExhaustionTerminal ==
  [][m4_pc = "loop"
       => /\ ~gnews_available
               => /\ ~gnews_available'
                  /\ \A k \in DOMAIN StepLog : StepLog[k].api # "gnews"
          /\ ~newsapi_available
               => /\ ~newsapi_available'
                  /\ \A k \in DOMAIN StepLog : StepLog[k].api # "newsapi"
          /\ \A j, k \in DOMAIN StepLog :
                (j < k /\ Marks(StepLog[j])) => StepLog[k].api # StepLog[j].api
          /\ (\E k \in DOMAIN StepLog : Marks(StepLog[k]))
               => /\ m4_last'.called
                  /\ m4_last'.api_used \in {"gnews", "newsapi"}
                  /\ m4_pc' \in {"loop", "done"}]_vars

\* GNews was marked unavailable by an earlier call of the run; a later call
\* entered with the flag down and sent its one request to NewsAPI
C18_Witness ==
  /\ m4_pc \in {"loop", "done"}
  /\ m4_last.called
  /\ m4_last.entry.gnews = FALSE
  /\ m4_last.entry.newsapi = TRUE
  /\ m4_last.entry.count >= 1
  /\ m4_last.log = << [api |-> "newsapi", status |-> 200] >>
  /\ ~gnews_available

\* search_single_api called by itself between two runs of
\* process_claims_with_verification, or before the first: the globals are
\* those the module was loaded with or the last run left
m4_search ==
  /\ m4_pc \in {"loaded", "done"}
  /\ \E answers \in M4Answers :
       LET r == search_single_api(M4Globals, answers)
       IN  /\ \A k \in 1..3 : k > Len(r.log) => answers[k] = M4NoAnswer
           /\ m4_api_call_count' = r.count
           /\ gnews_available' = r.gnews
           /\ newsapi_available' = r.newsapi
           /\ m4_last' = [called |-> TRUE,
                          entry |-> [count |-> m4_api_call_count,
                                     gnews |-> gnews_available,
                                     newsapi |-> newsapi_available],
                          exit |-> [count |-> r.count,
                                    gnews |-> r.gnews,
                                    newsapi |-> r.newsapi],
                          log |-> r.log,
                          articles |-> r.articles,
                          api_used |-> r.api_used]
  /\ UNCHANGED <<m4_pc, m4_runs, m4_left>>
  /\ UNCHANGED <<fc_vars, replay, llm_vars, fn_vars>>

NextBudget == m4_start \/ m4_claim \/ m4_search

SpecBudget == InitSearch /\ [][NextBudget]_vars

\* the globals api_call_count, gnews_available, newsapi_available
M4Flags ==
  [count |-> m4_api_call_count, gnews |-> gnews_available,
   newsapi |-> newsapi_available]

\* C19: api_call_count stays within 0..MAX_API_CALLS; a step that changes
\* it either is the start of a run, which sets it to 0, or raises it by one
\* for each request the step's search_single_api call issues, never lowers
\* it; a search_single_api call entered with the counter at MAX_API_CALLS
\* issues no request, leaves counter and flags as they are and returns
\* ([], "none")
C19_CallBudget ==
  /\ [](m4_api_call_count \in 0..MAX_API_CALLS)
  /\ [][m4_api_call_count' # m4_api_call_count
          => \/ /\ m4_pc # "loop"
                /\ m4_runs' = m4_runs + 1
                /\ m4_pc' \in {"loop", "done"}
                /\ m4_api_call_count' = 0
             \/ /\ m4_runs' = m4_runs
                /\ m4_last'.called
                /\ m4_last'.entry.count = m4_api_call_count
                /\ m4_api_call_count' = m4_api_call_count + Len(m4_last'.log)
                /\ Len(m4_last'.log) >= 1]_vars
  /\ [][(m4_pc # "loop" /\ m4_runs' = m4_runs
            /\ m4_api_call_count = MAX_API_CALLS)
          => /\ M4Flags' = M4Flags
             /\ m4_last' = [called |-> TRUE, entry |-> M4Flags, exit |-> M4Flags,
                            log |-> <<>>, articles |-> <<>>, api_used |-> "none"]]_vars

\* the counter has reached MAX_API_CALLS after the start of a run, and a
\* search_single_api call entered at the ceiling has returned ([], "none")
\* without a request
C19_Witness ==
  /\ m4_pc = "done"
  /\ m4_runs = 1
  /\ m4_api_call_count = MAX_API_CALLS
  /\ m4_last.called
  /\ m4_last.entry.count = MAX_API_CALLS
  /\ m4_last.exit = m4_last.entry
  /\ m4_last.log = <<>>
  /\ m4_last.articles = <<>>
  /\ m4_last.api_used = "none"

\* C21 (as stated): a search_single_api call whose first request fails
\* transiently (an exception, or a status other than 200, 429 and 403),
\* entered with the other provider available and two budget units left, has
\* counted the failed request and has sent a second request to the other
\* provider.
C21_Original ==
  (/\ m4_last.called
   /\ m4_last.log # <<>>
   /\ m4_last.log[1].status \notin {200, 429, 403}
   /\ other_available(m4_last.entry, m4_last.log[1].api)
   /\ m4_last.entry.count + 2 <= MAX_API_CALLS)
  => /\ m4_last.exit.count = m4_last.entry.count + Len(m4_last.log)
     /\ Len(m4_last.log) >= 2
     /\ m4_last.log[2].api # m4_last.log[1].api

\* the availability flag of provider api_name in the globals st
M4Available(st, api_name) == IF api_name = "gnews" THEN st.gnews ELSE st.newsapi

\* C30: a search_single_api call issues at most two requests, no two of
\* them to the same provider; a second request follows only a first one
\* that raised or was answered 429 or 403, goes to a provider that was
\* available when the call was entered, and the provider tried first is
\* unavailable afterwards.
C30_FailoverTerminates ==
  m4_last.called
    => /\ Len(m4_last.log) <= 2
       /\ \A j, k \in DOMAIN m4_last.log :
             j # k => m4_last.log[j].api # m4_last.log[k].api
       /\ \A k \in DOMAIN m4_last.log :
             /\ m4_last.log[k].api \in {"gnews", "newsapi"}
             /\ M4Available(m4_last.entry, m4_last.log[k].api)
       /\ Len(m4_last.log) = 2
             => /\ m4_last.log[1].status \in {0, 429, 403}
                /\ ~M4Available(m4_last.exit, m4_last.log[1].api)

\* GNews answered 429 and the request to NewsAPI raised: two requests, both
\* providers unavailable afterwards, with budget left for a third
C30_Witness ==
  /\ m4_last.called
  /\ Len(m4_last.log) = 2
  /\ m4_last.log[1] = [api |-> "gnews", status |-> 429]
  /\ m4_last.log[2] = [api |-> "newsapi", status |-> 0]
  /\ ~m4_last.exit.gnews /\ ~m4_last.exit.newsapi
  /\ m4_last.exit.count < MAX_API_CALLS

\* ------------------------------------- two runs of process_claims compared
\* Both runs go over json_data with the ceiling max_api_calls, each from a
\* fresh counter and with answers of its own; they take turns, claim by claim.
FreshRun ==
  [pc |-> loop_pc(FALSE, 0), idx |-> 0, calls |-> 0, decisions |-> <<>>]

InitReplay ==
  /\ M4Loaded
  /\ LlmIdle
  /\ FnIdle
  /\ json_data \in ClaimLists
  /\ max_api_calls \in 0..MaxCeiling
  /\ input_exists = TRUE
  /\ results_file = NoFile
  /\ pc = "idle"
  /\ runs = 0
  /\ ret = <<>>
  /\ idx = 0
  /\ api_call_count = 0
  /\ verified_claims = <<>>
  /\ trace = <<>>
  /\ search_requests = 0
  /\ network_calls = 0
  /\ replay = [turn |-> 1, run |-> <<FreshRun, FreshRun>>, same_failures |-> TRUE,
               pending |-> <<>>]

\* what a run decided for a claim
Decision(it) ==
  IF it.path = "search" THEN "searched"
  ELSE IF it.path = "break" THEN "skipped_no_budget"
  ELSE IF it.path = "knowledge" THEN "knowledge"
  ELSE "no_query"

FailurePattern(log) == [k \in 1..Len(log) |-> log[k].failed]

\* the run whose turn it is handles its next claim (one iteration of the
\* loop of process_claims); a run that has returned passes
replay_claim ==
  LET r == replay.turn
      run == replay.run[r]
  IN  /\ pc = "idle"
      /\ r \in {1, 2}
      /\ \E q \in {1, 2} : replay.run[q].pc = "loop"
      /\ IF run.pc = "loop"
           THEN \E o \in { [brk |-> it.brk, calls |-> it.calls,
                            decision |-> Decision(it),
                            failures |-> FailurePattern(it.log)] :
                             it \in Iterations(json_data[run.idx + 1], run.calls,
                                               max_api_calls) } :
                  LET after == [pc |-> loop_pc(o.brk, run.idx + 1),
                                idx |-> run.idx + 1,
                                calls |-> o.calls,
                                decisions |-> Append(run.decisions, o.decision)]
                  IN  replay' =
                        [turn |-> 3 - r,
                         run |-> [replay.run EXCEPT ![r] = after],
                         pending |-> IF r = 1 THEN o.failures ELSE <<>>,
                         same_failures |->
                           IF r = 1 THEN replay.same_failures
                           ELSE replay.same_failures /\ o.failures = replay.pending]
           ELSE replay' = [replay EXCEPT
                             !.turn = 3 - r,
                             !.pending = <<>>,
                             !.same_failures = IF r = 1 THEN @
                                               ELSE @ /\ replay.pending = <<>>]
      /\ UNCHANGED <<fc_vars, m4_vars, llm_vars, fn_vars>>

NextReplay == replay_claim

SpecReplay == InitReplay /\ [][NextReplay]_vars

BothReturned ==
  /\ replay.turn \in {1, 2}
  /\ replay.run[1].pc = "returned"
  /\ replay.run[2].pc = "returned"

\* C9 (as stated): two runs over the same claim list, each from a fresh
\* counter with the same ceiling, take the same decision for every claim,
\* whatever the providers answer in either run.
C9_Original == BothReturned => replay.run[1].decisions = replay.run[2].decisions

\* C9 (amended): the two runs take the same decisions and end with the same
\* counter whenever, claim by claim, their provider requests fail at the same
\* places (None from make_api_call); what the successful answers hold (no
\* article, which articles) and what the article fetches give may differ.
C9_Amended ==
  (replay.turn = 1 /\ replay.same_failures) =>
     /\ replay.run[1].decisions = replay.run[2].decisions
     /\ replay.run[1].calls = replay.run[2].calls

\* both runs are over, with the same failures: one request failed, and the
\* budget skipped a claim in both
C9_Witness ==
  /\ BothReturned
  /\ replay.same_failures
  /\ replay.run[1].calls = 2
  /\ replay.run[1].decisions = <<"searched", "skipped_no_budget">>
  /\ replay.run[2].decisions = <<"searched", "skipped_no_budget">>

\* ------------------------------------------------- main5.py: classifier
\* A response is the sequence of its words, a phrase is in it when its words
\* follow one another in it.
LowerWord(word) ==
  IF word = "FALSE" THEN "false" ELSE IF word = "TRUE" THEN "true" ELSE word

lower(text) == [i \in 1..Len(text) |-> LowerWord(text[i])]

Contains(text, phrase) ==
  \E i \in 1..(Len(text) - Len(phrase) + 1) :
     SubSeq(text, i, i + Len(phrase) - 1) = phrase

extract_classification(response_text) ==
  LET response_lower == lower(response_text)
      has(phrase) == Contains(response_lower, phrase)
  IN  IF has(<<"false">>)
        THEN IF has(<<"not", "false">>) \/ has(<<"isn't", "false">>)
               THEN "TRUE" ELSE "FALSE"
      ELSE IF has(<<"true">>)
        THEN IF has(<<"not", "true">>) \/ has(<<"isn't", "true">>)
               THEN "FALSE" ELSE "TRUE"
      ELSE IF has(<<"claim", "is", "correct">>) \/ has(<<"claim", "is", "accurate">>)
        THEN "TRUE"
      ELSE IF \/ has(<<"claim", "is", "incorrect">>)
              \/ has(<<"claim", "is", "inaccurate">>)
              \/ has(<<"claim", "is", "wrong">>)
        THEN "FALSE"
      ELSE IF has(<<"no", "evidence">>) \/ has(<<"cannot", "be", "verified">>)
        THEN "FALSE"
      ELSE "UNVERIFIABLE"

\* what the model may stream
Responses ==
  { <<>>, <<"TRUE">>, <<"claim", "is", "false">>, <<"not", "false">>,
    <<"isn't", "true">>, <<"claim", "is", "accurate">>, <<"claim", "is", "wrong">>,
    <<"no", "evidence">>, <<"unclear">> }

\* the message of the exception a backend call raises
ErrorMessages == {"timeout"}

\* a chunk of the stream: its delta carries content (some words) or none
Chunk(words) == [has_content |-> TRUE, content |-> words]

RoleChunk == [has_content |-> FALSE, content |-> <<>>]

\* the loop over response_stream: full_response += content for each chunk
\* whose delta has content, in the order of arrival
RECURSIVE accumulate(_)
accumulate_mut(chunks) ==
  IF chunks = <<>> THEN <<>> ELSE chunks[Len(chunks)].content

accumulate(chunks) ==
  IF chunks = <<>> THEN <<>>
  ELSE (IF Head(chunks).has_content THEN Head(chunks).content ELSE <<>>)
         \o accumulate(Tail(chunks))

\* one model invocation: create_chat_completion raises ("call"), the stream
\* raises after the fragments given ("stream"), or the stream ends
ModelOutcomes ==
  { [raises |-> "call", fragments |-> <<>>, message |-> m] : m \in ErrorMessages }
    \cup { [raises |-> "stream", fragments |-> t, message |-> m] :
              t \in {<<>>, <<Chunk(<<"TRUE">>)>>,
                     <<RoleChunk, Chunk(<<"claim", "is">>), Chunk(<<"false">>)>>},
              m \in ErrorMessages }
    \cup { [raises |-> "no", fragments |-> <<RoleChunk, Chunk(t)>>, message |-> "none"] :
              t \in Responses }

\* `if not articles`
no_articles_mut(articles) == FALSE

no_articles(articles) == articles = <<>>

\* the try block holds both create_chat_completion and the loop over the
\* stream: `except Exception` is entered when either raises
backend_raises_mut(out) == out.raises = "call"

backend_raises(out) == out.raises \in {"call", "stream"}

\* classify_claim_with_llm: the label, the response text, whether
\* extract_classification ran, and how often the model was invoked
classify_claim_with_llm(articles, out) ==
  IF no_articles(articles)
    THEN [label |-> "UNVERIFIABLE", llm_response |-> <<"No", "articles", "found">>,
          extracted |-> FALSE, invoked |-> 0]
  ELSE IF backend_raises(out)
    THEN [label |-> "ERROR", llm_response |-> <<"Error:", out.message>>,
          extracted |-> FALSE, invoked |-> 1]
  ELSE [label |-> extract_classification(accumulate(out.fragments)),
        llm_response |-> accumulate(out.fragments), extracted |-> TRUE, invoked |-> 1]

\* ------------------------------------ main5.py: the stream of one claim
MaxStreamWords == 3

StreamWords == {"not", "false", "TRUE", "no", "evidence"}

StreamTexts == UNION { [1..n -> StreamWords] : n \in 0..MaxStreamWords }

\* the ways the backend may deliver a text: cut into chunks of one word or
\* more, after a first chunk without content or without one
RECURSIVE Pieces(_)
Pieces(text) ==
  IF text = <<>> THEN { <<>> }
  ELSE UNION { { <<Chunk(SubSeq(text, 1, k))>> \o rest :
                   rest \in Pieces(SubSeq(text, k + 1, Len(text))) } :
               k \in 1..Len(text) }

Fragmentations(text) ==
  Pieces(text) \cup { <<RoleChunk>> \o p : p \in Pieces(text) }

\* ------------------------------------------------------------ the drivers
\* os.path.exists(results_filename), os.path.exists(output_file_path)
already_done_mut(file) == FALSE

already_done(file) == file.exists

\* what save_results_to_file can do to the file: write it whole, fail before
\* it is opened (os.makedirs or open raises), fail while json.dump writes
SaveOutcomes == {"saved", "not_opened", "dump_failed"}

save_results_to_file(file, results, outcome) ==
  IF outcome = "saved"
    THEN [ok |-> TRUE, file |-> [exists |-> TRUE, valid |-> TRUE, content |-> results]]
  ELSE IF outcome = "not_opened"
    THEN [ok |-> FALSE, file |-> file]
  ELSE [ok |-> FALSE, file |-> [exists |-> TRUE, valid |-> FALSE, content |-> file.content]]

\* run_fact_checking_process up to the call of process_claims
run_fact_checking_process ==
  /\ pc = "idle"
  /\ llm_pc = "idle"
  /\ runs < MaxRuns
  /\ runs' = runs + 1
  /\ IF already_done(results_file)
       THEN /\ ret' = Append(ret, "path")
            /\ UNCHANGED <<pc, idx, api_call_count, verified_claims, trace,
                           search_requests>>
     ELSE IF ~input_exists \/ json_data = <<>>
       THEN /\ ret' = Append(ret, "None")
            /\ UNCHANGED <<pc, idx, api_call_count, verified_claims, trace,
                           search_requests>>
     ELSE /\ pc' = "loop"
          /\ idx' = 0
          /\ api_call_count' = 0
          /\ verified_claims' = <<>>
          /\ trace' = <<>>
          /\ search_requests' = 0
          /\ UNCHANGED ret
  /\ UNCHANGED <<json_data, input_exists, max_api_calls, results_file, network_calls>>
  /\ UNCHANGED <<m4_vars, replay, llm_vars, fn_vars>>

\* run_fact_checking_process after process_claims has returned: the results
\* are saved and, if saved, printed; print_results raises KeyError at a record
\* without verification_result. The locals of the invocation are gone when it
\* returns.
save_results ==
  /\ pc = "returned"
  /\ runs > 0
  /\ \E outcome \in SaveOutcomes :
       LET saved == save_results_to_file(results_file, verified_claims, outcome)
       IN  /\ results_file' = saved.file
           /\ ret' = Append(ret, IF ~saved.ok THEN "None"
                                 ELSE IF \A i \in DOMAIN verified_claims :
                                           HasTag(verified_claims[i])
                                   THEN "path" ELSE "KeyError")
  /\ pc' = "idle"
  /\ UNCHANGED <<json_data, input_exists, max_api_calls, runs, network_calls>>
  /\ idx' = 0
  /\ api_call_count' = 0
  /\ verified_claims' = <<>>
  /\ trace' = <<>>
  /\ search_requests' = 0
  /\ UNCHANGED <<m4_vars, replay, llm_vars, fn_vars>>

llm_loop_pc(loaded, claims, done) ==
  IF loaded /\ done < Len(claims) THEN "loop" ELSE "save"

\* run_llm_classification_process up to the loop of process_claims_with_llm;
\* its input is the result file of run_fact_checking_process
run_llm_classification_process ==
  /\ pc = "idle"
  /\ llm_pc = "idle"
  /\ llm_runs < MaxRuns
  /\ llm_runs' = llm_runs + 1
  /\ IF already_done(output_file)
       THEN /\ llm_ret' = Append(llm_ret, "path")
            /\ UNCHANGED <<llm_pc, llm_idx, classification_results, llm_trace>>
     ELSE IF ~results_file.exists \/ ~model_exists \/ ~results_file.valid
       THEN /\ llm_ret' = Append(llm_ret, "None")
            /\ UNCHANGED <<llm_pc, llm_idx, classification_results, llm_trace>>
     ELSE \E loaded \in BOOLEAN :
            /\ llm_pc' = llm_loop_pc(loaded, results_file.content, 0)
            /\ llm_idx' = 0
            /\ classification_results' = [loaded |-> loaded, classifications |-> <<>>]
            /\ llm_trace' = <<>>
            /\ UNCHANGED llm_ret
  /\ UNCHANGED <<output_file, model_exists, model_calls>>
  /\ UNCHANGED <<fc_vars, m4_vars, replay, fn_vars>>

\* one step of the loop of process_claims_with_llm
process_claims_with_llm ==
  /\ llm_pc = "loop"
  /\ LET claim_data == results_file.content[llm_idx + 1]
         claim == claim_data.claim
         articles == claim_data.articles
     IN  IF claim = <<>>
           THEN UNCHANGED <<classification_results, llm_trace, model_calls>>
           ELSE \E out \in ModelOutcomes :
                  LET classification == classify_claim_with_llm(articles, out)
                      result == [claim |-> claim,
                                 search_query |-> claim_data.search_query,
                                 classification |-> classification.label,
                                 articles_count |-> Len(articles)]
                  IN  /\ classification_results' =
                           [classification_results EXCEPT
                              !.classifications = Append(@, result)]
                      /\ llm_trace' =
                           Append(llm_trace,
                                  [articles |-> Len(articles),
                                   tag |-> Tag(claim_data),
                                   label |-> classification.label,
                                   invoked |-> classification.invoked,
                                   raises |-> IF classification.invoked = 0
                                                THEN "unused" ELSE out.raises,
                                   extracted |-> classification.extracted,
                                   error_reported |->
                                     classification.llm_response =
                                       <<"Error:", out.message>>])
                      /\ model_calls' = model_calls + classification.invoked
  /\ llm_idx' = llm_idx + 1
  /\ llm_pc' = llm_loop_pc(TRUE, results_file.content, llm_idx + 1)
  /\ UNCHANGED <<output_file, model_exists, llm_runs, llm_ret>>
  /\ UNCHANGED <<fc_vars, m4_vars, replay, fn_vars>>

\* run_llm_classification_process after process_claims_with_llm has returned
save_classification_results ==
  /\ llm_pc = "save"
  /\ \E outcome \in SaveOutcomes :
       LET saved == save_results_to_file(output_file, classification_results, outcome)
       IN  /\ output_file' = saved.file
           /\ llm_ret' = Append(llm_ret, IF saved.ok THEN "path" ELSE "None")
  /\ llm_pc' = "idle"
  /\ llm_idx' = 0
  /\ classification_results' = NoResults
  /\ UNCHANGED <<model_exists, llm_runs, llm_trace, model_calls>>
  /\ UNCHANGED <<fc_vars, m4_vars, replay, fn_vars>>

\* a classification file left by an earlier run
OldOutput ==
  [exists |-> TRUE, valid |-> TRUE,
   content |-> [loaded |-> TRUE, classifications |-> <<>>]]

\* the claim lists the pipeline is run on: claims answered from knowledge,
\* claims searched with their query, claims without any text (the shape of
\* the query matters to fetch_news_articles only)
PipelineInputs ==
  { l \in ClaimLists :
      /\ Len(l) <= MaxPipelineClaims
      /\ \A i \in DOMAIN l : Len(l[i].search_query) = 2 \/ l[i].claim = <<>> }

InitPipeline ==
  /\ M4Loaded
  /\ FnIdle
  /\ replay = NoReplay
  /\ input_exists \in BOOLEAN
  /\ json_data \in (IF input_exists THEN PipelineInputs ELSE {<<>>})
  /\ max_api_calls = PipelineCeiling
  /\ results_file \in {NoFile, OldFile}
  /\ pc = "idle"
  /\ runs = 0
  /\ ret = <<>>
  /\ idx = 0
  /\ api_call_count = 0
  /\ verified_claims = <<>>
  /\ trace = <<>>
  /\ search_requests = 0
  /\ network_calls = 0
  /\ output_file \in {NoOutput, OldOutput}
  /\ model_exists \in BOOLEAN
  /\ llm_pc = "idle"
  /\ llm_runs = 0
  /\ llm_ret = <<>>
  /\ llm_idx = 0
  /\ classification_results = NoResults
  /\ llm_trace = <<>>
  /\ model_calls = 0

NextPipeline ==
  \/ run_fact_checking_process
  \/ process_claims
  \/ save_results
  \/ run_llm_classification_process
  \/ process_claims_with_llm
  \/ save_classification_results

SpecPipeline == InitPipeline /\ [][NextPipeline]_vars

\* C5: an invocation of run_fact_checking_process (resp.
\* run_llm_classification_process) that finds its output file returns the
\* path at once: no search request, no article fetch, no model invocation,
\* and the file as it was; an invocation that returned the path has left the
\* file in place, so the next one is such an invocation.
C5_IdempotentRun ==
  [][ /\ (runs' # runs /\ results_file.exists) =>
           /\ ret' = Append(ret, "path")
           /\ pc' = "idle"
           /\ results_file' = results_file
           /\ search_requests' = search_requests
           /\ network_calls' = network_calls
           /\ trace' = trace
           /\ model_calls' = model_calls
      /\ (llm_runs' # llm_runs /\ output_file.exists) =>
           /\ llm_ret' = Append(llm_ret, "path")
           /\ llm_pc' = "idle"
           /\ output_file' = output_file
           /\ network_calls' = network_calls
           /\ model_calls' = model_calls
           /\ llm_trace' = llm_trace
      /\ (ret' # ret /\ ret'[Len(ret')] = "path") => results_file'.exists
      /\ (llm_ret' # llm_ret /\ llm_ret'[Len(llm_ret')] = "path") => output_file'.exists
    ]_vars

\* both stages were invoked twice: the first invocation of each did its work
\* (network calls, model invocations) and returned the path, the second
\* found the file and returned the path
C5_Witness ==
  /\ ret = <<"path", "path">>
  /\ network_calls > 0
  /\ llm_ret = <<"path", "path">>
  /\ model_calls > 0

\* C10: a claim classified with an empty article list is labelled
\* UNVERIFIABLE and the model is not invoked for it.
C10_EmptyEvidence ==
  \A i \in DOMAIN llm_trace :
     llm_trace[i].articles = 0 =>
        /\ llm_trace[i].label = "UNVERIFIABLE"
        /\ llm_trace[i].invoked = 0

\* run_fact_checking_process has saved a claim whose search found no
\* article, and run_llm_classification_process has classified it without
\* the model
C10_Witness ==
  /\ ret = <<"path">>
  /\ llm_ret = <<"path">>
  /\ model_calls = 0
  /\ \E i \in DOMAIN llm_trace :
        /\ llm_trace[i].tag = "no_articles_found"
        /\ llm_trace[i].articles = 0
        /\ llm_trace[i].label = "UNVERIFIABLE"
        /\ llm_trace[i].invoked = 0

\* the step of process_claims_with_llm that classified a claim whose model
\* call raised
BackendRaised ==
  /\ Len(llm_trace') = Len(llm_trace) + 1
  /\ llm_trace'[Len(llm_trace')].raises \in {"call", "stream"}

\* C13: in main5, whenever the model invocation raises, or the stream raises
\* after some fragments, the claim is labelled ERROR, its response text is
\* the exception message, extract_classification has not run on the partial
\* text, and the loop goes on: the step records the claim as ERROR and
\* leaves the loop at the next claim (or at the save after the last one)
C13_BackendErrorContained ==
  /\ [](\A i \in DOMAIN llm_trace :
          llm_trace[i].raises \in {"call", "stream"}
            => /\ llm_trace[i].label = "ERROR"
               /\ llm_trace[i].error_reported
               /\ ~llm_trace[i].extracted)
  /\ [][BackendRaised
          => /\ classification_results'.classifications =
                  Append(classification_results.classifications,
                         [claim |-> results_file.content[llm_idx + 1].claim,
                          search_query |->
                            results_file.content[llm_idx + 1].search_query,
                          classification |-> "ERROR",
                          articles_count |->
                            Len(results_file.content[llm_idx + 1].articles)])
             /\ llm_idx' = llm_idx + 1
             /\ llm_pc' = IF llm_idx' < Len(results_file.content)
                            THEN "loop" ELSE "save"]_vars

\* a stream that raised after a fragment saying TRUE gave ERROR, and the
\* next claim was classified by the model
C13_Witness ==
  /\ Len(llm_trace) >= 2
  /\ llm_trace[1].raises = "stream"
  /\ llm_trace[1].label = "ERROR"
  /\ llm_trace[2].raises = "no"
  /\ llm_trace[2].label = "TRUE"

\* run_llm_classification_process is about to return from a run that met a
\* setup failure: at its checks the input file is missing or unparsable or
\* the model file is missing; at the save the model had failed to load or
\* the input held no claim
SetupFailure ==
  /\ ~output_file.exists
  /\ \/ /\ llm_pc = "idle"
        /\ ~results_file.exists \/ ~results_file.valid \/ ~model_exists
     \/ /\ llm_pc = "save"
        /\ ~classification_results.loaded \/ results_file.content = <<>>

\* C14: on any setup failure (input file missing or unparsable, model
\* missing or failing to load, zero loaded claims)
\* run_llm_classification_process returns None and the output path does not
\* exist afterwards
C14_Original ==
  [][(SetupFailure /\ Len(llm_ret') = Len(llm_ret) + 1)
       => /\ llm_ret'[Len(llm_ret')] = "None"
          /\ ~output_file'.exists]_vars

\* ------------------------------------- custom_results/main6.py: classifier
\* everything but the function called by itself
OthersIdle == M4Loaded /\ FcIdle /\ LlmIdle /\ replay = NoReplay

\* the words a response of the remote model is made of, in several casings
GeminiWords ==
  {"LABEL:", "label:", "TRUE", "FALSE", "false", "Unverifiable", "maybe"}

UpperWord(word) ==
  IF word = "label:" THEN "LABEL:"
  ELSE IF word = "false" THEN "FALSE"
  ELSE IF word = "Unverifiable" THEN "UNVERIFIABLE"
  ELSE IF word = "maybe" THEN "MAYBE"
  ELSE word

\* result_text.upper()
upper_mut(text) == text

upper(text) == [i \in 1..Len(text) |-> UpperWord(text[i])]

GeminiResponses == UNION { [1..n -> GeminiWords] : n \in 0..MaxResponseWords }

\* the label taken from the response, main6.py lines 342-351
extract_label_mut(result_text) ==
  IF Contains(upper(result_text), <<"LABEL:", "FALSE">>) THEN "false"
  ELSE IF Contains(upper(result_text), <<"LABEL:", "TRUE">>) THEN "true"
  ELSE IF Contains(upper(result_text), <<"LABEL:", "UNVERIFIABLE">>) THEN "unverifiable"
  ELSE "unknown"

extract_label(result_text) ==
  IF Contains(upper(result_text), <<"LABEL:", "TRUE">>) THEN "true"
  ELSE IF Contains(upper(result_text), <<"LABEL:", "FALSE">>) THEN "false"
  ELSE IF Contains(upper(result_text), <<"LABEL:", "UNVERIFIABLE">>) THEN "unverifiable"
  ELSE "unknown"

\* what the backend does for one claim. first: generate_content returns a
\* response whose text can be read ("ok"), a response stopped by the safety
\* filter ("safety"), a response whose .text raises ValueError ("no_text"),
\* or it raises ("raises"); then stream says how the streamed second call
\* goes: "ok" with the text of its chunks, or "raises"
GeminiOutcomes ==
  { [first |-> "ok", stream |-> "unused", text |-> t] : t \in GeminiResponses }
    \cup { [first |-> f, stream |-> "unused", text |-> <<>>] : f \in {"safety", "no_text"} }
    \cup { [first |-> "raises", stream |-> "ok", text |-> t] : t \in GeminiResponses }
    \cup { [first |-> "raises", stream |-> "raises", text |-> <<>>] }

\* classify_claim_with_gemini: the label, whether an exception leaves the
\* function, how often generate_content was called, and whether the label was
\* taken from the response text
classify_claim_with_gemini(articles, out) ==
  IF articles = <<>>
    THEN [label |-> "unverifiable", raised |-> FALSE, invoked |-> 0, extracted |-> FALSE]
  ELSE IF out.first \in {"safety", "no_text"}
    THEN [label |-> "error", raised |-> FALSE, invoked |-> 1, extracted |-> FALSE]
  ELSE IF out.first = "raises" /\ out.stream = "raises"
    THEN [label |-> "error", raised |-> FALSE, invoked |-> 2, extracted |-> FALSE]
  ELSE [label |-> extract_label(out.text), raised |-> FALSE,
        invoked |-> IF out.first = "raises" THEN 2 ELSE 1, extracted |-> TRUE]

\* the article lists a claim is classified with
GeminiArticleLists == { <<>>, <<Article("example.com")>> }

InitGemini ==
  /\ OthersIdle
  /\ call \in { [fn |-> "classify_claim_with_gemini", articles |-> a, out |-> o] :
                  a \in GeminiArticleLists \ {<<>>}, o \in GeminiOutcomes }
             \cup { [fn |-> "classify_claim_with_gemini", articles |-> <<>>,
                     out |-> [first |-> "ok", stream |-> "unused", text |-> <<>>]] }
  /\ returned = NoCall

gemini_call ==
  /\ call.fn = "classify_claim_with_gemini"
  /\ returned = NoCall
  /\ returned' = [fn |-> call.fn] @@ classify_claim_with_gemini(call.articles, call.out)
  /\ UNCHANGED <<call, fc_vars, m4_vars, replay, llm_vars>>

NextGemini == gemini_call

SpecGemini == InitGemini /\ [][NextGemini]_vars

\* the label was taken from the text of a response
GeminiExtracted == returned # NoCall /\ returned.extracted

\* the spellings of a pattern word among GeminiWords
Casings(word) ==
  IF word = "LABEL:" THEN {"LABEL:", "label:"}
  ELSE IF word = "TRUE" THEN {"TRUE"}
  ELSE IF word = "FALSE" THEN {"FALSE", "false"}
  ELSE {"Unverifiable"}

\* LABEL: word occurs in the text, in some casing
HasPattern(text, word) ==
  \E i \in 1..(Len(text) - 1) :
     text[i] \in Casings("LABEL:") /\ text[i + 1] \in Casings(word)

\* C11 (as stated): a response with LABEL: FALSE in it, in any casing, is
\* labelled false whatever else it holds.
C11_Original ==
  (GeminiExtracted /\ HasPattern(call.out.text, "FALSE")) => returned.label = "false"

\* C11 (amended): a response with LABEL: FALSE in it, in any casing, is
\* labelled false when it does not also hold LABEL: TRUE, and true when it
\* does; the label string is lower case.
C11_Amended ==
  (GeminiExtracted /\ HasPattern(call.out.text, "FALSE")) =>
     returned.label = IF HasPattern(call.out.text, "TRUE") THEN "true" ELSE "false"

\* a lower-case label: false after another word was labelled false
C11_Witness ==
  /\ GeminiExtracted
  /\ call.out.text = <<"maybe", "label:", "false">>
  /\ returned.label = "false"

\* C12 (as stated): a response with none of the three label patterns is
\* labelled unverifiable, and no exception leaves the function.
C12_Original ==
  (/\ GeminiExtracted
   /\ \A w \in {"TRUE", "FALSE", "UNVERIFIABLE"} : ~HasPattern(call.out.text, w))
  => returned.label = "unverifiable" /\ ~returned.raised


\* C24 (as stated): when generate_content raises, classify_claim_with_gemini
\* returns the label error and has not called the backend a second time; the
\* backend is called at most once for a claim.
C24_Original ==
  returned # NoCall
    => /\ returned.invoked <= 1
       /\ (call.articles # <<>> /\ call.out.first = "raises")
            => returned.label = "error" /\ ~returned.extracted

\* C27: the label taken from a response is true whenever LABEL: TRUE occurs
\* in it in some casing, false whenever LABEL: FALSE occurs and LABEL: TRUE
\* does not, unverifiable whenever LABEL: UNVERIFIABLE occurs and neither of
\* the other two does (the label strings are lower case).
C27_LabelPriority ==
  GeminiExtracted
    => LET text == call.out.text
       IN  /\ HasPattern(text, "TRUE") => returned.label = "true"
           /\ (HasPattern(text, "FALSE") /\ ~HasPattern(text, "TRUE"))
                 => returned.label = "false"
           /\ (/\ HasPattern(text, "UNVERIFIABLE")
               /\ ~HasPattern(text, "TRUE") /\ ~HasPattern(text, "FALSE"))
                 => returned.label = "unverifiable"

\* LABEL: TRUE after label: false in one response: the label is true
C27_Witness ==
  /\ GeminiExtracted
  /\ call.out.text = <<"label:", "false", "LABEL:", "TRUE">>
  /\ returned.label = "true"

\* ----------------------------- custom_results/main6.py: the evidence text
MaxEvidenceArticles == 2

MaxFieldChars == 3

MaxContentChars == 1

MaxTokenBudget == 34

\* len("No articles available for comparison.")
SentenceChars == 37

\* the characters of an article's text that are not taken from the article:
\* "\n\nArticle i:", "Title: ", "Source: ", "Published Date: ", "URL: ",
\* "Summary: " and the "\n" that join them (i < 10)
FrameChars == 62

\* "\n" and "Content: "
ContentLabelChars == 10

\* an article as extract_article_content reads it: the characters of title,
\* source, published_date, url and description together, and those of
\* content (0: no content)
EvidenceArticles == [fields : 0..MaxFieldChars, content : 0..MaxContentChars]

EvidenceArticleLists ==
  UNION { [1..n -> EvidenceArticles] : n \in 0..MaxEvidenceArticles }

\* a text is a sequence of pieces, each the leading chars characters of the
\* text of one article (src 0: the fixed sentence)
RECURSIVE TextLen(_)
TextLen(text) ==
  IF text = <<>> THEN 0 ELSE text[1].chars + TextLen(Tail(text))

\* text[:n]
RECURSIVE Take(_, _)
Take(text, n) ==
  IF text = <<>> \/ n <= 0 THEN <<>>
  ELSE IF text[1].chars <= n
    THEN <<text[1]>> \o Take(Tail(text), n - text[1].chars)
  ELSE << [text[1] EXCEPT !.chars = n] >>

\* count_tokens of main6.py
main6_count_tokens(text) == TextLen(text) \div 4

truncate_text_to_tokens_mut(text, max_tokens) == text

truncate_text_to_tokens(text, max_tokens) ==
  LET max_chars == max_tokens * 4
  IN  IF TextLen(text) <= max_chars THEN text ELSE Take(text, max_chars)

\* "\n".join(article_parts) for the article at index i - 1
article_text(i, article) ==
  << [src |-> i,
      chars |-> FrameChars + article.fields
                  + (IF article.content > 0
                       THEN ContentLabelChars + article.content ELSE 0)] >>

\* the loop of extract_article_content from the article at index i - 1 on
RECURSIVE extract_loop(_, _, _, _)
extract_loop(articles, i, content, remaining_tokens) ==
  IF i > Len(articles) \/ remaining_tokens <= 0 THEN content
  ELSE LET text == article_text(i, articles[i])
           article_tokens == main6_count_tokens(text)
       IN  IF article_tokens <= remaining_tokens
             THEN extract_loop(articles, i + 1, content \o text,
                               remaining_tokens - article_tokens)
           ELSE extract_loop(articles, i + 1,
                             content \o truncate_text_to_tokens(text, remaining_tokens),
                             0)

extract_article_content(articles, max_tokens) ==
  IF articles = <<>>
    THEN << [src |-> 0, chars |-> SentenceChars] >>
  ELSE extract_loop(articles, 1, <<>>, max_tokens)

InitEvidence ==
  /\ OthersIdle
  /\ call \in { [fn |-> "extract_article_content", articles |-> a, max_tokens |-> n] :
                  a \in EvidenceArticleLists, n \in 0..MaxTokenBudget }
  /\ returned = NoCall

evidence_call ==
  /\ call.fn = "extract_article_content"
  /\ returned = NoCall
  /\ returned' = [fn |-> call.fn,
                  text |-> extract_article_content(call.articles, call.max_tokens)]
  /\ UNCHANGED <<call, fc_vars, m4_vars, replay, llm_vars>>

NextEvidence == evidence_call

SpecEvidence == InitEvidence /\ [][NextEvidence]_vars

MaxTextChars == 6

MaxTruncateTokens == 1

\* the characters of a text
Chars == {"a", " ", "."}

Texts == UNION { [1..n -> Chars] : n \in 0..MaxTextChars }

\* text.rsplit(' ', 1)[0]: the text before its last space, the whole text
\* if it has none
rsplit_first(text) ==
  LET spaces == { i \in DOMAIN text : text[i] = " " }
  IN  IF spaces = {} THEN text
      ELSE SubSeq(text, 1, (CHOOSE i \in spaces : \A j \in spaces : j <= i) - 1)

truncate_text_for_tokens(text, max_tokens) ==
  LET max_chars == max_tokens * 4
  IN  IF Len(text) <= max_chars THEN text
      ELSE rsplit_first(SubSeq(text, 1, max_chars)) \o <<".", ".", ".">>

InitTruncate ==
  /\ OthersIdle
  /\ call \in { [fn |-> "truncate_text_for_tokens", text |-> t, max_tokens |-> n] :
                  t \in Texts, n \in 0..MaxTruncateTokens }
  /\ returned = NoCall

truncate_call ==
  /\ call.fn = "truncate_text_for_tokens"
  /\ returned = NoCall
  /\ returned' = [fn |-> call.fn,
                  text |-> truncate_text_for_tokens(call.text, call.max_tokens)]
  /\ UNCHANGED <<call, fc_vars, m4_vars, replay, llm_vars>>

NextTruncate == truncate_call

SpecTruncate == InitTruncate /\ [][NextTruncate]_vars

\* s is t or some leading characters of t
IsPrefix(s, t) == Len(s) <= Len(t) /\ s = SubSeq(t, 1, Len(s))

\* C16 (as stated): truncating the result of truncate_text_for_tokens again
\* with the same budget changes nothing, the result is a prefix of the text
\* and counts at most max_tokens tokens (len // 4), and the empty text is
\* returned as it is.
C16_Original ==
  returned # NoCall
    => /\ truncate_text_for_tokens(returned.text, call.max_tokens) = returned.text
       /\ IsPrefix(returned.text, call.text)
       /\ Len(returned.text) \div 4 <= call.max_tokens
       /\ call.text = <<>> => returned.text = <<>>


\* ----------------------------- fact_check.py: fetch_full_article_content
InitFetch ==
  /\ OthersIdle
  /\ call \in { [fn |-> "fetch_full_article_content", url |-> u, page |-> p] :
                  u \in Urls, p \in PageOutcomes }
  /\ returned = NoCall

fetch_call ==
  /\ call.fn = "fetch_full_article_content"
  /\ returned = NoCall
  /\ returned' = [fn |-> call.fn] @@ fetch_full_article_content(call.url, call.page)
  /\ UNCHANGED <<call, fc_vars, m4_vars, replay, llm_vars>>

NextFetch == fetch_call

SpecFetch == InitFetch /\ [][NextFetch]_vars

\* C17 (as stated): for a url whose domain (the host it names) is ndtv.com,
\* the one entry of the blocklist, fetch_full_article_content returns None
\* and issues no HTTP request.
C17_Original ==
  (returned # NoCall /\ call.url.host = "ndtv.com")
    => returned.content = 0 /\ returned.gets = 0


\* ------------------------------------------ custom_results/fact_check.py
MaxCustomClaims == 4

\* MAX_API_CALLS of custom_results/fact_check.py
CUSTOM_MAX_API_CALLS == 5

\* what one requests.get of fetch_news_articles gives: a RequestException
\* (network error, timeout), a 200 with or without articles, another status
CustomOutcomes == {"raises", "articles", "no_articles", "status_500"}

\* the answers to the first request and to the alternative query
CustomAnswers == [1..2 -> CustomOutcomes]

\* api_call_count += 1, the statement after requests.get: it is not reached
\* when requests.get raises
counted(outcome) == IF outcome = "raises" THEN 0 ELSE 1

\* fetch_news_articles entered with api_call_count = count: the articles
\* ("None", "empty", "some"), the counter on return and the requests issued
custom_fetch_news_articles(count, answers) ==
  IF count >= CUSTOM_MAX_API_CALLS
    THEN [articles |-> "None", count |-> count, requests |-> 0]
  ELSE LET count1 == count + counted(answers[1])
           count2 == count1 + counted(answers[2])
       IN  IF answers[1] = "raises" \/ answers[1] = "status_500"
             THEN [articles |-> "None", count |-> count1, requests |-> 1]
           ELSE IF answers[1] = "articles"
             THEN [articles |-> "some", count |-> count1, requests |-> 1]
           ELSE IF count1 < CUSTOM_MAX_API_CALLS
             THEN [articles |-> IF answers[2] = "articles" THEN "some"
                                ELSE IF answers[2] = "no_articles" THEN "empty"
                                ELSE "None",
                   count |-> count2, requests |-> 2]
           ELSE [articles |-> "empty", count |-> count1, requests |-> 1]

\* process_claims is called on call.claims claims, with api_call_count as the
\* module is loaded with
InitCustom ==
  /\ OthersIdle
  /\ call \in { [fn |-> "process_claims", claims |-> n] : n \in 1..MaxCustomClaims }
  /\ returned = NoCall

\* what the run has done so far: the claims gone through, api_call_count,
\* the requests issued and the articles of the last fetch_news_articles
CustomRun ==
  IF returned = NoCall
    THEN [fn |-> "process_claims", done |-> 0, api_call_count |-> 0,
          requests |-> 0, articles |-> "None"]
  ELSE returned

\* one iteration of the loop of process_claims: a claim that asks for
\* external verification and has a search query is searched
custom_claim ==
  /\ call.fn = "process_claims"
  /\ CustomRun.done < call.claims
  /\ CustomRun.api_call_count < CUSTOM_MAX_API_CALLS
  /\ \E searched \in BOOLEAN, answers \in CustomAnswers :
       LET r == custom_fetch_news_articles(CustomRun.api_call_count, answers)
       IN  /\ r.requests < 2 => answers[2] = "raises"
           /\ ~searched => answers = [k \in 1..2 |-> "raises"]
           /\ returned' =
                IF searched
                  THEN [fn |-> "process_claims", done |-> CustomRun.done + 1,
                        api_call_count |-> r.count,
                        requests |-> CustomRun.requests + r.requests,
                        articles |-> r.articles]
                ELSE [CustomRun EXCEPT !.done = @ + 1]
  /\ UNCHANGED <<call, fc_vars, m4_vars, replay, llm_vars>>

NextCustom == custom_claim

SpecCustom == InitCustom /\ [][NextCustom]_vars

\* C20 (as stated): at every point of a run api_call_count equals the
\* number of requests fetch_news_articles has issued, those that ended in a
\* network error or timeout included, and the requests issued never exceed
\* MAX_API_CALLS.
C20_Original ==
  (returned # NoCall /\ call.fn = "process_claims")
    => /\ returned.api_call_count = returned.requests
       /\ returned.requests <= CUSTOM_MAX_API_CALLS


\* ------------------------------------- fact_check.py: fetch_news_articles
MaxNewsCeiling == 4

\* fetch_news_articles called by itself: any query, any counter up to the
\* ceiling, the answers to the requests it issues
InitNews ==
  /\ OthersIdle
  /\ call \in { c \in [fn : {"fetch_news_articles"}, search_query : Queries \ {<<>>},
                       current_api_calls : 0..MaxNewsCeiling,
                       max_api_calls : 0..MaxNewsCeiling,
                       resp : Answers(MaxNewsCeiling)] :
                  /\ c.current_api_calls <= c.max_api_calls
                  /\ \A k \in 1..4 :
                       k > Len(fetch_news_articles(c.search_query, c.current_api_calls,
                                                   c.max_api_calls, c.resp).log)
                         => c.resp[k] = NoAnswer }
  /\ returned = NoCall

news_call ==
  /\ call.fn = "fetch_news_articles"
  /\ returned = NoCall
  /\ returned' = [fn |-> call.fn]
                   @@ fetch_news_articles(call.search_query, call.current_api_calls,
                                          call.max_api_calls, call.resp)
  /\ UNCHANGED <<call, fc_vars, m4_vars, replay, llm_vars>>

NextNews == news_call

SpecNews == InitNews /\ [][NextNews]_vars

\* both requests with the original query were issued and failed
FirstPassFailed ==
  /\ Len(returned.log) >= 2
  /\ returned.log[1].failed
  /\ returned.log[2].failed

\* the requests after the first two are the provider sequence GNews, NewsAPI
\* with the alternative query, as far as the budget lets it go and until a
\* provider answers
AlternativePass ==
  LET r == returned.log
      alt == generate_alternative_query(call.search_query)
  IN  /\ \A k \in 3..Len(r) :
            /\ r[k].q = alt
            /\ r[k].api = IF k = 3 THEN "GNews" ELSE "NewsAPI"
      /\ call.current_api_calls + 2 < call.max_api_calls => Len(r) >= 3
      /\ Len(r) = 4 => r[3].failed
      /\ (Len(r) >= 3 /\ r[3].failed /\ call.current_api_calls + 3 < call.max_api_calls)
            => Len(r) = 4

\* every request was issued with the counter below the ceiling, there are
\* at most four, and the counter returned is the incoming one plus their
\* number
SearchWithinBudget ==
  /\ Len(returned.log) <= 4
  /\ returned.calls = call.current_api_calls + Len(returned.log)
  /\ \A k \in DOMAIN returned.log : call.current_api_calls + k - 1 < call.max_api_calls

\* C23 (as stated): when both requests of the first pass have failed, the
\* provider sequence is repeated once with the alternative query, each
\* request only while the counter is below the ceiling; a search issues at
\* most four requests and returns the incoming counter plus their number.
C23_Original ==
  returned # NoCall
    => /\ SearchWithinBudget
       /\ FirstPassFailed => AlternativePass

\* C23 (amended): the alternative pass is made only if the alternative
\* query differs from the sanitized original query; if it is the same, the
\* search ends after the first pass and returns no articles.
C23_Amended ==
  returned # NoCall
    => /\ SearchWithinBudget
       /\ FirstPassFailed
            => IF generate_alternative_query(call.search_query)
                    = sanitize_search_query(call.search_query)
                 THEN Len(returned.log) = 2 /\ returned.articles = <<>>
               ELSE AlternativePass

\* a search of four requests: GNews and NewsAPI failed with the query of
\* four words, GNews failed with its first three words and NewsAPI answered
C23_Witness ==
  /\ returned # NoCall
  /\ call.search_query = <<"w1", "w2", "w3", "w4">>
  /\ Len(returned.log) = 4
  /\ returned.log[1].q = <<"w1", "w2", "w3", "w4">>
  /\ returned.log[3].q = <<"w1", "w2", "w3">>
  /\ returned.log[4].api = "NewsAPI"
  /\ ~returned.log[4].failed
  /\ returned.calls = call.current_api_calls + 4

\* ------------------------------ main5.py: one text, two streams
\* classify_claim_with_llm called twice on one article, the backend
\* delivering the same text in one chunk (a) and cut in some way (b)
InitStream ==
  /\ OthersIdle
  /\ call \in UNION { { [fn |-> "classify_claim_with_llm", text |-> t, a |-> a, b |-> b] :
                          a \in { <<Chunk(t)>> }, b \in Fragmentations(t) } :
                        t \in StreamTexts }
  /\ returned = NoCall

stream_call ==
  /\ call.fn = "classify_claim_with_llm"
  /\ returned = NoCall
  /\ returned' =
       [fn |-> call.fn,
        a |-> classify_claim_with_llm(<<Article("example.com")>>,
                [raises |-> "no", fragments |-> call.a, message |-> "none"]),
        b |-> classify_claim_with_llm(<<Article("example.com")>>,
                [raises |-> "no", fragments |-> call.b, message |-> "none"])]
  /\ UNCHANGED <<call, fc_vars, m4_vars, replay, llm_vars>>

NextStream == stream_call

SpecStream == InitStream /\ [][NextStream]_vars

\* C25: the response string of classify_claim_with_llm is the text of the
\* content-bearing chunks in arrival order, extract_classification has run
\* on it, once the stream had ended, and every way of cutting a text into
\* chunks gives the label of the text delivered in one chunk (so that any
\* two ways give the same label)
C25_StreamAccumulation ==
  returned # NoCall
    => /\ returned.a.llm_response = call.text
       /\ returned.b.llm_response = call.text
       /\ returned.a.extracted /\ returned.b.extracted
       /\ returned.a.invoked = 1 /\ returned.b.invoked = 1
       /\ returned.a.label = returned.b.label

\* "not false" delivered as one chunk and as "not" followed by "false": both
\* are labelled TRUE, where the chunk "false" alone would be labelled FALSE
C25_Witness ==
  /\ returned # NoCall
  /\ call.text = <<"not", "false">>
  /\ call.a = << Chunk(<<"not", "false">>) >>
  /\ call.b = << RoleChunk, Chunk(<<"not">>), Chunk(<<"false">>) >>
  /\ returned.a.label = "TRUE"
  /\ returned.b.label = "TRUE"
  /\ extract_classification(<<"false">>) = "FALSE"

\* word occurs in the text without "not" before it
BareWord(text, word) ==
  \E i \in DOMAIN text : text[i] = word /\ (i = 1 \/ text[i - 1] # "not")

\* C28 (as stated): extract_classification returns one of TRUE, FALSE and
\* UNVERIFIABLE; FALSE (TRUE) only for a text with a "false" ("true") that
\* has no "not" before it, and UNVERIFIABLE for every text that holds
\* neither "true" nor "false".
C28_Original ==
  returned # NoCall
    => LET text == lower(call.text)
           label == extract_classification(call.text)
       IN  /\ returned.a.label = label
           /\ label \in {"TRUE", "FALSE", "UNVERIFIABLE"}
           /\ label = "FALSE" => BareWord(text, "false")
           /\ label = "TRUE" => BareWord(text, "true")
           /\ (~Contains(text, <<"true">>) /\ ~Contains(text, <<"false">>))
                 => label = "UNVERIFIABLE"

MaxM5Articles == 3

MaxContentTokens == 2

MaxM5Budget == 95

\* contents are told apart by steps of this many tokens
ContentStep == 20

\* `if remaining_tokens <= 50`
BUFFER_TOKENS == 50

\* the tokens of "\n--- Article i ---\nSource: s\nTitle: t\nContent: \n",
\* the formatted text of an article without content (about twenty)
FrameTokens == 20

\* an article as extract_article_content reads it: the tokens its content
\* (or summary, or description) adds to the formatted text
M5Articles == [content : { ContentStep * c : c \in 0..MaxContentTokens }]

M5ArticleLists == UNION { [1..n -> M5Articles] : n \in 0..MaxM5Articles }

\* a text is a sequence of pieces, each the leading tokens of the formatted
\* text of one article; len(encoding.encode(text))
RECURSIVE main5_count_tokens(_)
main5_count_tokens(text) ==
  IF text = <<>> THEN 0 ELSE text[1].tokens + main5_count_tokens(Tail(text))

\* encoding.decode(tokens[:max_tokens]); a text of no tokens is ""
RECURSIVE main5_truncate_text_to_tokens(_, _)
main5_truncate_text_to_tokens_mut(text, max_tokens) == text

main5_truncate_text_to_tokens(text, max_tokens) ==
  IF main5_count_tokens(text) <= max_tokens THEN text
  ELSE IF text = <<>> \/ max_tokens <= 0 THEN <<>>
  ELSE IF text[1].tokens <= max_tokens
    THEN <<text[1]>> \o main5_truncate_text_to_tokens(Tail(text),
                                                      max_tokens - text[1].tokens)
  ELSE << [text[1] EXCEPT !.tokens = max_tokens] >>

\* the formatted text of the article at index i - 1
main5_article_text(i, article) ==
  << [src |-> i, tokens |-> FrameTokens + article.content] >>

\* the loop of extract_article_content from the article at index i - 1 on
RECURSIVE main5_extract_loop(_, _, _, _)
main5_extract_loop(articles, i, content_parts, remaining_tokens) ==
  IF i > Len(articles) \/ remaining_tokens <= BUFFER_TOKENS THEN content_parts
  ELSE LET article_text_i == main5_article_text(i, articles[i])
           article_tokens == main5_count_tokens(article_text_i)
       IN  IF article_tokens <= remaining_tokens
             THEN main5_extract_loop(articles, i + 1, content_parts \o article_text_i,
                                     remaining_tokens - article_tokens)
           ELSE content_parts
                  \o main5_truncate_text_to_tokens(article_text_i, remaining_tokens)

\* src 0: the sentence "No articles available."
main5_extract_article_content(articles, max_tokens) ==
  IF articles = <<>> THEN << [src |-> 0, tokens |-> 4] >>
  ELSE main5_extract_loop(articles, 1, <<>>, max_tokens)

InitM5Evidence ==
  /\ OthersIdle
  /\ call \in { [fn |-> "main5.extract_article_content", articles |-> a, max_tokens |-> n] :
                  a \in M5ArticleLists, n \in 0..MaxM5Budget }
  /\ returned = NoCall

m5_evidence_call ==
  /\ call.fn = "main5.extract_article_content"
  /\ returned = NoCall
  /\ returned' = [fn |-> call.fn,
                  text |-> main5_extract_article_content(call.articles, call.max_tokens)]
  /\ UNCHANGED <<call, fc_vars, m4_vars, replay, llm_vars>>

NextM5Evidence == m5_evidence_call

SpecM5Evidence == InitM5Evidence /\ [][NextM5Evidence]_vars

\* the tokens of the formatted texts of the articles before index i - 1, and
\* what they leave of the budget
RECURSIVE TokensBefore(_)
TokensBefore(i) ==
  IF i <= 1 THEN 0
  ELSE TokensBefore(i - 1)
         + main5_count_tokens(main5_article_text(i - 1, call.articles[i - 1]))

RemainingAt(i) == call.max_tokens - TokensBefore(i)

\* the tokens of article i in the returned text (0: left out)
IncludedTokens(i) ==
  IF \E k \in DOMAIN returned.text : returned.text[k].src = i
    THEN (CHOOSE piece \in { returned.text[k] : k \in DOMAIN returned.text } :
            piece.src = i).tokens
  ELSE 0

InInputOrder ==
  \A k \in DOMAIN returned.text :
    /\ returned.text[k].src \in DOMAIN call.articles
    /\ k > 1 => returned.text[k - 1].src < returned.text[k].src

C26_LeftOut ==
  /\ returned # NoCall
  /\ call.max_tokens = 90
  /\ Len(call.articles) = 2
  /\ call.articles[1].content = 20
  /\ call.articles[2].content = 0
  /\ returned.text = << [src |-> 1, tokens |-> 40] >>
  /\ RemainingAt(2) = BUFFER_TOKENS

====
